---- MODULE Spec2Model ----
(***************************************************************************)
(* One run of the OCR fusion pipeline of pdf_processor:                    *)
(*   pyzerox_ext.process_pdf_async   (the Direct sub-path)                 *)
(*   pytess.purify_and_extract_text_from_pdf (the Preprocessed sub-path)   *)
(*   txtGenerator.get_best_ocr_result / txtapp.get_best_ocr_result         *)
(* Texts are sequences of one-character strings.  The rasterizer, the      *)
(* recognizer and the text corrector are external: every outcome they can  *)
(* have is a nondeterministic choice.                                      *)
(* Further specifications model clean_ocr_text on its own (SpecClean), the *)
(* reruns of txtapp.main (SpecApp) and splitter.main with split_pdf        *)
(* (SpecSplitter).                                                         *)
(***************************************************************************)
EXTENDS Integers, Sequences, FiniteSets, TLC

\* ---------------------------------------------------------------- bounds
MaxPages == 2
MaxLen == 4          \* longest input given to clean_ocr_text in SpecClean
MaxTempFiles == 6    \* temporary files txtapp.main creates in SpecApp
MaxNumSplits == 2    \* cap on session_state.num_splits in SpecSplitter
MaxTotalPages == 3   \* pages of the PDF given to the splitter
MaxSpecLen == 3      \* longest page specification typed into a split

\* ------------------------------------------------------ program constants
max_retries == 5
retry_delay_base == 10

\* ------------------------------------------------- external capabilities
\* what the recognizer may return for one page
RawTexts == { <<>>, <<"a">>, <<"a", " ", " ", "b", "\n", "\n">> }
\* what the corrector may return as message content when it succeeds
CorrectorTexts == { <<"x">>, <<"y">> }
\* outcome classes of one corrector call
CorrectorOutcomes == {"ok", "empty", "rate", "err"}
Entries == {"txtGenerator", "txtapp"}

\* the 2-page document of the scenario: what the Direct recognizer and the
\* Preprocessed recognizer read on each page (words are single tokens)
HelloDirect == << << "Hello", " ", " ", "World", "\n", "\n" >>, << "Foo" >> >>
HelloPre == << << "Hello", " ", "World" >>, << "Foo", " ", "Bar" >> >>

\* ------------------------------------------------------------ text helpers
Whitespace == {" ", "\n"}
Newline == {"\n"}

RECURSIVE DropRun(_, _)
DropRun(s, cls) ==
    IF s # <<>> /\ Head(s) \in cls THEN DropRun(Tail(s), cls) ELSE s

\* re.sub(cls+, r, s): every maximal run of characters of cls becomes r
RECURSIVE SubRuns(_, _, _)
SubRuns(s, cls, r) ==
    IF s = <<>> THEN <<>>
    ELSE IF Head(s) \in cls THEN <<r>> \o SubRuns(DropRun(s, cls), cls, r)
    ELSE <<Head(s)>> \o SubRuns(Tail(s), cls, r)

RECURSIVE RStrip(_)
RStrip(s) ==
    IF s # <<>> /\ s[Len(s)] \in Whitespace
    THEN RStrip(SubSeq(s, 1, Len(s) - 1)) ELSE s

\* str.strip()
Strip(s) == RStrip(DropRun(s, Whitespace))

\* str.replace('\n', ' ')
ReplaceNewlines(s) == [i \in 1..Len(s) |-> IF s[i] = "\n" THEN " " ELSE s[i]]

\* clean_ocr_text without its final strip()
clean_ocr_text_noStrip(ocr_text) ==
    SubRuns(SubRuns(ocr_text, Whitespace, " "), Newline, "\n")

\* pyzerox_ext.clean_ocr_text
clean_ocr_text(ocr_text) ==
    Strip(SubRuns(SubRuns(ocr_text, Whitespace, " "), Newline, "\n"))

\* '\n'.join(text_parts)
RECURSIVE JoinLines(_)
JoinLines(parts) ==
    IF parts = <<>> THEN <<>>
    ELSE IF Len(parts) = 1 THEN parts[1]
    ELSE parts[1] \o <<"\n">> \o JoinLines(Tail(parts))

\* pytess.preprocess_and_extract_text: the recognizer's text, newlines
\* replaced by spaces, stripped
preprocess_and_extract_text(raw) == Strip(ReplaceNewlines(raw))

\* pytess: extracted_text += '\n\n' + text + '\n\n'
AppendPage(acc, text) == acc \o <<"\n", "\n">> \o text \o <<"\n", "\n">>

\* the message content of a corrector call with outcome kind
Content(kind, t) == IF kind = "ok" THEN t ELSE <<>>

VARIABLES
    entry,          \* which get_best_ocr_result is running
    pc,             \* position of the run
    file_exists,    \* os.path.exists(file_path)
    numPages,       \* pages of the document
    zx_images,      \* pyzerox_ext: convert_from_path  "none" | "ok" | "fail"
    text_parts,     \* pyzerox_ext.extract_text_from_pdf: text_parts
    zx_page_error,  \* page whose recognition raised in pyzerox_ext, 0 if none
    tess_images,    \* pytess: convert_from_path  "none" | "ok" | "fail"
    tess_i,         \* pytess: pages recognized so far
    tess_page_error,\* page whose recognition raised in pytess, 0 if none
    extracted_text, \* pytess: extracted_text
    attempt,        \* pytess.purify_ocr_text: attempt
    retry_delay,    \* pytess.purify_ocr_text: retry_delay
    sleeps,         \* delays passed to time.sleep, in order
    calls,          \* corrector calls issued, in order
    pyzerox_output, \* get_best_ocr_result: pyzerox_output
    pytess_output,  \* get_best_ocr_result: pytess_output
    pytess_bound,   \* whether pytess_output has been assigned
    combined_text,  \* get_best_ocr_result: combined_text
    outcome,        \* "running" | "returned" | "raised"
    result,         \* the value get_best_ocr_result returned
    tess_parts,     \* pytess: what preprocess_and_extract_text returned, per page
    scenario,       \* "none": any document and corrector; "hello": the
                    \* 2-page document with the corrector unavailable
    cl_pc,          \* SpecClean: "idle" | "input" | "once" | "twice"
    cl_in,          \* the text given to clean_ocr_text
    cl_once,        \* clean_ocr_text(cl_in)
    cl_twice,       \* clean_ocr_text(cl_once)
    app_uploaded,   \* txtapp.main: uploaded_file is set
    app_tmp,        \* temporary files on disk (numbered in creation order)
    app_created,    \* temporary files created so far
    app_shown,      \* what the last rerun of txtapp.main displayed
    sp_uploaded,    \* splitter.main: uploaded_file is not None
    sp_has_key,     \* 'num_splits' in st.session_state
    num_splits,     \* st.session_state.num_splits
    sp_button,      \* the button pressed in the last rerun of splitter.main
    total_pages,    \* split_pdf: total_pages
    sp_pc,          \* "ui" | "loop": split_pdf is iterating over splits
    sp_i,           \* split_pdf: splits processed in the current call
    sp_last         \* split_pdf: the split processed last and what it wrote

cleanVars == << cl_pc, cl_in, cl_once, cl_twice >>
appVars == << app_uploaded, app_tmp, app_created, app_shown >>
splitVars == << sp_uploaded, sp_has_key, num_splits, sp_button, total_pages,
                sp_pc, sp_i, sp_last >>
\* what no step of get_best_ocr_result touches
fixedVars == << scenario, cleanVars, appVars, splitVars >>

pipeVars == << entry, pc, file_exists, numPages, zx_images, text_parts,
           zx_page_error, tess_images, tess_i, tess_page_error,
           extracted_text, attempt, retry_delay, sleeps, calls,
           pyzerox_output, pytess_output, pytess_bound, combined_text,
           outcome, result, tess_parts >>

vars == << pipeVars, fixedVars >>

docVars == << entry, file_exists, numPages >>
zxVars == << zx_images, text_parts, zx_page_error >>
tessVars == << tess_images, tess_i, tess_page_error, extracted_text,
              tess_parts >>
retryVars == << attempt, retry_delay, sleeps >>

Call(stage, kind) == [stage |-> stage, res |-> kind]

\* no text is being cleaned
CleanIdle ==
    /\ cl_pc = "idle"
    /\ cl_in = <<>>
    /\ cl_once = <<>>
    /\ cl_twice = <<>>

\* txtapp.main has not run
AppIdle ==
    /\ app_uploaded = FALSE
    /\ app_tmp = {}
    /\ app_created = 0
    /\ app_shown = "none"

NoSplit == [pages |-> <<>>, wrote |-> FALSE, page_list |-> <<>>]

\* splitter.main has not run: a fresh session
SplitIdle ==
    /\ sp_uploaded = FALSE
    /\ sp_has_key = FALSE
    /\ num_splits = 0
    /\ sp_button = "none"
    /\ total_pages = 0
    /\ sp_pc = "ui"
    /\ sp_i = 0
    /\ sp_last = NoSplit

\* get_best_ocr_result is entered
PipelineStart ==
    /\ pc = "p_exists"
    /\ zx_images = "none"
    /\ text_parts = <<>>
    /\ zx_page_error = 0
    /\ tess_images = "none"
    /\ tess_i = 0
    /\ tess_page_error = 0
    /\ extracted_text = <<>>
    /\ attempt = 0
    /\ retry_delay = retry_delay_base
    /\ sleeps = <<>>
    /\ calls = <<>>
    /\ pyzerox_output = <<>>
    /\ pytess_output = <<>>
    /\ pytess_bound = FALSE
    /\ combined_text = <<>>
    /\ outcome = "running"
    /\ result = <<>>
    /\ tess_parts = <<>>

Init ==
    /\ entry \in Entries
    /\ file_exists \in BOOLEAN
    /\ numPages \in 0..MaxPages
    /\ scenario = "none"
    /\ PipelineStart
    /\ CleanIdle
    /\ AppIdle
    /\ SplitIdle

\* what the recognizers may read on a page, and how a corrector call may end
DirectReads(page) ==
    IF scenario = "hello" THEN {HelloDirect[page]} ELSE RawTexts
PreReads(page) ==
    IF scenario = "hello" THEN {HelloPre[page]} ELSE RawTexts
Replies ==
    IF scenario = "hello" THEN {"rate", "err"} ELSE CorrectorOutcomes

\* --------------------------------------------- pyzerox_ext (Direct path)

\* process_pdf_async returns "" from its except clause and
\* get_best_ocr_result goes on to the pytess call
PyzeroxReturns(text) ==
    /\ pyzerox_output' = text
    /\ pc' = "t_convert"

\* process_pdf_async: os.path.exists(file_path)
PyzeroxCheckPath ==
    /\ pc = "p_exists"
    /\ IF file_exists
       THEN /\ pc' = "p_convert"
            /\ UNCHANGED pyzerox_output
       ELSE PyzeroxReturns(<<>>)
    /\ UNCHANGED << fixedVars, docVars, zxVars, tessVars, retryVars, calls,
                    pytess_output, pytess_bound, combined_text, outcome,
                    result >>

\* extract_text_from_pdf: convert_from_path(file_path)
PyzeroxConvert ==
    /\ pc = "p_convert"
    /\ \E ok \in BOOLEAN :
         IF ok
         THEN /\ zx_images' = "ok"
              /\ IF numPages = 0
                 THEN PyzeroxReturns(<<>>)   \* '' is falsy: ValueError
                 ELSE pc' = "p_page" /\ UNCHANGED pyzerox_output
         ELSE /\ zx_images' = "fail"
              /\ PyzeroxReturns(<<>>)
    /\ UNCHANGED << fixedVars, docVars, text_parts, zx_page_error, tessVars, retryVars,
                    calls, pytess_output, pytess_bound, combined_text,
                    outcome, result >>

\* extract_text_from_pdf: one iteration of the loop over images; after the
\* last page the joined text is tested by process_pdf_async
PyzeroxRecognizePage ==
    /\ pc = "p_page"
    /\ \/ \E raw \in DirectReads(Len(text_parts) + 1) :
            LET parts == Append(text_parts, raw) IN
            /\ text_parts' = parts
            /\ UNCHANGED zx_page_error
            /\ IF Len(parts) < numPages
               THEN pc' = "p_page" /\ UNCHANGED pyzerox_output
               ELSE IF JoinLines(parts) = <<>>
                    THEN PyzeroxReturns(<<>>)
                    ELSE pc' = "p_purify" /\ UNCHANGED pyzerox_output
       \/ \* pytesseract.image_to_string raises: return None, then ValueError
          /\ zx_page_error' = Len(text_parts) + 1
          /\ UNCHANGED text_parts
          /\ PyzeroxReturns(<<>>)
    /\ UNCHANGED << fixedVars, docVars, zx_images, tessVars, retryVars, calls,
                    pytess_output, pytess_bound, combined_text, outcome,
                    result >>

\* the purifier giving up with "" when the corrector fails
PyzeroxPurifyReturn_emptyOnFailure(ocr_text, kind, t) ==
    IF kind \in {"ok", "empty"} THEN Content(kind, t) ELSE <<>>

\* pyzerox_ext.purify_ocr_text: what the first iteration of the loop returns
PyzeroxPurifyReturn(ocr_text, kind, t) ==
    IF kind \in {"ok", "empty"} THEN Content(kind, t) ELSE ocr_text

\* process_pdf_async: purify_ocr_text(extracted_text)
PyzeroxPurify ==
    /\ pc = "p_purify"
    /\ \E kind \in Replies, t \in CorrectorTexts :
         /\ calls' = Append(calls, Call("purify_pyzerox", kind))
         /\ PyzeroxReturns(PyzeroxPurifyReturn(
                clean_ocr_text(JoinLines(text_parts)), kind, t))
    /\ UNCHANGED << fixedVars, docVars, zxVars, tessVars, retryVars, pytess_output,
                    pytess_bound, combined_text, outcome, result >>

\* ------------------------------------------ get_best_ocr_result: handler

\* the handler with its operands in the other order:
\* return pytess_output or pyzerox_output or ""
HandlerOutcome_pytessFirst(zx, tess, bound) ==
    IF ~bound THEN [outcome |-> "raised", result |-> <<>>]
    ELSE IF tess # <<>> THEN [outcome |-> "returned", result |-> tess]
    ELSE [outcome |-> "returned", result |-> zx]

\* except Exception: return pyzerox_output or pytess_output or ""
\* evaluating the unassigned pytess_output raises UnboundLocalError
HandlerOutcome(zx, tess, bound) ==
    IF zx # <<>> THEN [outcome |-> "returned", result |-> zx]
    ELSE IF ~bound THEN [outcome |-> "raised", result |-> <<>>]
    ELSE [outcome |-> "returned", result |-> tess]

Handler(tess, bound) ==
    /\ outcome' = HandlerOutcome(pyzerox_output, tess, bound).outcome
    /\ result' = HandlerOutcome(pyzerox_output, tess, bound).result
    /\ pc' = "done"

Return(text) ==
    /\ outcome' = "returned"
    /\ result' = text
    /\ pc' = "done"

\* ------------------------------------------- pytess (Preprocessed path)

\* purify_and_extract_text_from_pdf returns and get_best_ocr_result goes on
PytessReturns(text) ==
    /\ pytess_output' = text
    /\ pytess_bound' = TRUE
    /\ pc' = "check"
    /\ UNCHANGED << outcome, result >>

\* pytess.purify_ocr_text is entered: max_retries = 5, retry_delay = 10 and
\* the loop starts at attempt 0
EnterPurify ==
    /\ attempt' = 0
    /\ retry_delay' = retry_delay_base

\* purify_and_extract_text_from_pdf: convert_from_path(file_path, size=1000)
PytessConvert ==
    /\ pc = "t_convert"
    /\ \E ok \in BOOLEAN :
         IF ok /\ file_exists
         THEN /\ tess_images' = "ok"
              /\ IF numPages = 0
                 THEN pc' = "t_purify" /\ EnterPurify
                 ELSE pc' = "t_page" /\ UNCHANGED << attempt, retry_delay >>
              /\ UNCHANGED << outcome, result >>
         ELSE /\ tess_images' = "fail"
              /\ Handler(pytess_output, pytess_bound)
              /\ UNCHANGED << attempt, retry_delay >>
    /\ UNCHANGED << fixedVars, docVars, zxVars, tess_i, tess_page_error,
                    extracted_text, tess_parts, sleeps, calls, pyzerox_output, pytess_output,
                    pytess_bound, combined_text >>

\* purify_and_extract_text_from_pdf: one iteration of the loop over images
PytessRecognizePage ==
    /\ pc = "t_page"
    /\ \/ \E raw \in PreReads(tess_i + 1) :
            /\ extracted_text' =
                 AppendPage(extracted_text, preprocess_and_extract_text(raw))
            /\ tess_parts' =
                 Append(tess_parts, preprocess_and_extract_text(raw))
            /\ tess_i' = tess_i + 1
            /\ IF tess_i + 1 < numPages
               THEN pc' = "t_page" /\ UNCHANGED << attempt, retry_delay >>
               ELSE pc' = "t_purify" /\ EnterPurify
            /\ UNCHANGED << tess_page_error, outcome, result >>
       \/ \* the recognizer (or the transform) raises: nothing catches it
          \* before get_best_ocr_result
          /\ tess_page_error' = tess_i + 1
          /\ Handler(pytess_output, pytess_bound)
          /\ UNCHANGED << tess_i, extracted_text, tess_parts, attempt,
                          retry_delay >>
    /\ UNCHANGED << fixedVars, docVars, zxVars, tess_images, sleeps, calls,
                    pyzerox_output, pytess_output, pytess_bound,
                    combined_text >>

\* a linear backoff: retry_delay += 10
NextDelay_linear(d) == d + retry_delay_base

\* pytess.purify_ocr_text: retry_delay *= 2
NextDelay(d) == d * 2

\* the retry test off by one: if attempt < max_retries
MayRetry_offByOne(a) == a < max_retries

\* pytess.purify_ocr_text: if attempt < max_retries - 1
MayRetry(a) == a < max_retries - 1

\* pytess.purify_ocr_text: one iteration of the retry loop
PytessPurifyAttempt ==
    /\ pc = "t_purify"
    /\ attempt < max_retries
    /\ \E kind \in Replies, t \in CorrectorTexts :
         /\ calls' = Append(calls, Call("purify_pytess", kind))
         /\ CASE kind \in {"ok", "empty"} ->
                   /\ PytessReturns(Content(kind, t))
                   /\ UNCHANGED retryVars
              [] kind = "err" ->
                   /\ PytessReturns(extracted_text)
                   /\ UNCHANGED retryVars
              [] kind = "rate" /\ MayRetry(attempt) ->
                   /\ sleeps' = Append(sleeps, retry_delay)
                   /\ retry_delay' = NextDelay(retry_delay)
                   /\ attempt' = attempt + 1
                   /\ UNCHANGED << pc, pytess_output, pytess_bound, outcome,
                                   result >>
              [] OTHER ->
                   /\ Handler(pytess_output, pytess_bound)
                   /\ UNCHANGED << retryVars, pytess_output, pytess_bound >>
    /\ UNCHANGED << fixedVars, docVars, zxVars, tessVars, pyzerox_output,
                    combined_text >>

\* ------------------------------------------------- get_best_ocr_result

\* the if / elif chain with the two single-source branches returning the
\* wrong variable
CheckOutputs_wrongBranch ==
    /\ pc = "check"
    /\ IF pyzerox_output = <<>> /\ pytess_output = <<>>
       THEN Handler(pytess_output, pytess_bound)
       ELSE IF pyzerox_output = <<>> THEN Return(pyzerox_output)
       ELSE IF pytess_output = <<>> THEN Return(pytess_output)
       ELSE /\ pc' = "fuse"
            /\ UNCHANGED << outcome, result >>
    /\ UNCHANGED << fixedVars, docVars, zxVars, tessVars, retryVars, calls,
                    pyzerox_output, pytess_output, pytess_bound,
                    combined_text >>

\* the if / elif chain on the two outputs
CheckOutputs ==
    /\ pc = "check"
    /\ IF pyzerox_output = <<>> /\ pytess_output = <<>>
       THEN Handler(pytess_output, pytess_bound)     \* raise ValueError
       ELSE IF pyzerox_output = <<>> THEN Return(pytess_output)
       ELSE IF pytess_output = <<>> THEN Return(pyzerox_output)
       ELSE /\ pc' = "fuse"
            /\ UNCHANGED << outcome, result >>
    /\ UNCHANGED << fixedVars, docVars, zxVars, tessVars, retryVars, calls,
                    pyzerox_output, pytess_output, pytess_bound,
                    combined_text >>

\* the combining call with its failure swallowed: the run goes on to the
\* verification call
Fuse_continueOnFailure ==
    /\ pc = "fuse"
    /\ \E kind \in Replies, t \in CorrectorTexts :
         /\ calls' = Append(calls, Call("fuse", kind))
         /\ combined_text' = Content(kind, t)
         /\ pc' = "verify"
         /\ UNCHANGED << outcome, result >>
    /\ UNCHANGED << fixedVars, docVars, zxVars, tessVars, retryVars,
                    pyzerox_output, pytess_output, pytess_bound >>

\* the combining corrector call
Fuse ==
    /\ pc = "fuse"
    /\ \E kind \in Replies, t \in CorrectorTexts :
         /\ calls' = Append(calls, Call("fuse", kind))
         /\ IF kind \in {"ok", "empty"}
            THEN /\ combined_text' = Content(kind, t)
                 /\ pc' = "verify"
                 /\ UNCHANGED << outcome, result >>
            ELSE /\ Handler(pytess_output, pytess_bound)
                 /\ UNCHANGED combined_text
    /\ UNCHANGED << fixedVars, docVars, zxVars, tessVars, retryVars, pyzerox_output,
                    pytess_output, pytess_bound >>

\* how the run ends after the verification call: only txtGenerator wraps the
\* call in its own try and keeps combined_text; in txtapp the failure reaches
\* the outer handler
VerifyOutcome(e, kind, t) ==
    IF kind \in {"ok", "empty"}
    THEN [outcome |-> "returned", result |-> Content(kind, t)]
    ELSE IF e = "txtGenerator"
         THEN [outcome |-> "returned", result |-> combined_text]
         ELSE HandlerOutcome(pyzerox_output, pytess_output, pytess_bound)

\* the verification corrector call
Verify ==
    /\ pc = "verify"
    /\ \E kind \in Replies, t \in CorrectorTexts :
         /\ calls' = Append(calls, Call("verify", kind))
         /\ outcome' = VerifyOutcome(entry, kind, t).outcome
         /\ result' = VerifyOutcome(entry, kind, t).result
         /\ pc' = "done"
    /\ UNCHANGED << fixedVars, docVars, zxVars, tessVars, retryVars, pyzerox_output,
                    pytess_output, pytess_bound, combined_text >>

\* get_best_ocr_result is called again (txtapp.main runs it on every press of
\* 'Process PDF'): a new frame, a new document; the cells of the previous
\* purify_ocr_text frame keep whatever that call left in them
Restart ==
    /\ pc = "done"
    /\ pc' = "p_exists"
    /\ IF scenario = "hello"
       THEN UNCHANGED << file_exists, numPages >>
       ELSE /\ file_exists' \in BOOLEAN
            /\ numPages' \in 0..MaxPages
    /\ zx_images' = "none"
    /\ text_parts' = <<>>
    /\ zx_page_error' = 0
    /\ tess_images' = "none"
    /\ tess_i' = 0
    /\ tess_page_error' = 0
    /\ extracted_text' = <<>>
    /\ sleeps' = <<>>
    /\ calls' = <<>>
    /\ pyzerox_output' = <<>>
    /\ pytess_output' = <<>>
    /\ pytess_bound' = FALSE
    /\ combined_text' = <<>>
    /\ outcome' = "running"
    /\ result' = <<>>
    /\ tess_parts' = <<>>
    /\ UNCHANGED << fixedVars, entry, attempt, retry_delay >>

Next ==
    \/ PyzeroxCheckPath
    \/ PyzeroxConvert
    \/ PyzeroxRecognizePage
    \/ PyzeroxPurify
    \/ PytessConvert
    \/ PytessRecognizePage
    \/ PytessPurifyAttempt
    \/ CheckOutputs
    \/ Fuse
    \/ Verify
    \/ Restart

Spec == Init /\ [][Next]_vars

\* one call of get_best_ocr_result, run to its end: the code is sequential
\* and every external call returns or raises, so a step that can be taken is
\* taken
NextRun ==
    \/ PyzeroxCheckPath
    \/ PyzeroxConvert
    \/ PyzeroxRecognizePage
    \/ PyzeroxPurify
    \/ PytessConvert
    \/ PytessRecognizePage
    \/ PytessPurifyAttempt
    \/ CheckOutputs
    \/ Fuse
    \/ Verify

SpecRun == Init /\ [][NextRun]_vars /\ WF_vars(NextRun)

\* the scenario: the 2-page document, every corrector call fails
InitScenario ==
    /\ entry \in Entries
    /\ file_exists = TRUE
    /\ numPages = 2
    /\ scenario = "hello"
    /\ PipelineStart
    /\ CleanIdle
    /\ AppIdle
    /\ SplitIdle

\* with the corrector unavailable the verification call is never reached
NextScenario ==
    \/ PyzeroxCheckPath
    \/ PyzeroxConvert
    \/ PyzeroxRecognizePage
    \/ PyzeroxPurify
    \/ PytessConvert
    \/ PytessRecognizePage
    \/ PytessPurifyAttempt
    \/ CheckOutputs
    \/ Fuse
    \/ Restart

SpecScenario == InitScenario /\ [][NextScenario]_vars

\* ------------------------------------------------ clean_ocr_text alone

\* get_best_ocr_result is not running
PipelineIdle ==
    /\ entry = "txtGenerator"
    /\ file_exists = FALSE
    /\ numPages = 0
    /\ scenario = "none"
    /\ PipelineStart

CleanAlphabet == {"a", " ", "\n"}
CleanInputs == UNION { [1..k -> CleanAlphabet] : k \in 0..MaxLen }

InitClean ==
    /\ cl_pc = "input"
    /\ cl_in \in CleanInputs
    /\ cl_once = <<>>
    /\ cl_twice = <<>>
    /\ PipelineIdle
    /\ AppIdle
    /\ SplitIdle

\* purify_ocr_text: ocr_text = clean_ocr_text(ocr_text)
CleanOnce ==
    /\ cl_pc = "input"
    /\ cl_once' = clean_ocr_text(cl_in)
    /\ cl_pc' = "once"
    /\ UNCHANGED << cl_in, cl_twice, pipeVars, scenario, appVars, splitVars >>

\* the cleaned text is given to clean_ocr_text again
CleanTwice ==
    /\ cl_pc = "once"
    /\ cl_twice' = clean_ocr_text(cl_once)
    /\ cl_pc' = "twice"
    /\ UNCHANGED << cl_in, cl_once, pipeVars, scenario, appVars, splitVars >>

NextClean ==
    \/ CleanOnce
    \/ CleanTwice

SpecClean == InitClean /\ [][NextClean]_vars

\* ------------------------------------------------------- txtapp.main
\* Streamlit runs main() from the top on every interaction: one action is one
\* rerun.

InitApp ==
    /\ AppIdle
    /\ PipelineIdle
    /\ CleanIdle
    /\ SplitIdle

\* with tempfile.NamedTemporaryFile(delete=False, suffix='.pdf')
NewTemp == app_created + 1

\* how asyncio.run(get_best_ocr_result(tmp_path)) may end
RunOutcomes == {"text", "empty", "raise"}

\* what main displays for it
Shown(res) ==
    IF res = "text" THEN "saved" ELSE IF res = "empty" THEN "failed"
    ELSE "error"

\* the user chooses a file: the rerun writes it to a new temporary file and
\* the button is not pressed
AppUpload ==
    /\ ~app_uploaded
    /\ app_created < MaxTempFiles
    /\ app_uploaded' = TRUE
    /\ app_created' = NewTemp
    /\ app_tmp' = app_tmp \cup {NewTemp}
    /\ app_shown' = "uploaded"
    /\ UNCHANGED << pipeVars, scenario, cleanVars, splitVars >>

\* a rerun with the file still chosen and 'Process PDF' not pressed (the
\* 'Download Result' button, a replaced file)
AppRerun ==
    /\ app_uploaded
    /\ app_created < MaxTempFiles
    /\ app_created' = NewTemp
    /\ app_tmp' = app_tmp \cup {NewTemp}
    /\ app_shown' = "uploaded"
    /\ UNCHANGED << app_uploaded, pipeVars, scenario, cleanVars, splitVars >>

\* a rerun with 'Process PDF' pressed: try / except / finally os.unlink, whose
\* own failure is swallowed
AppProcess ==
    /\ app_uploaded
    /\ app_created < MaxTempFiles
    /\ \E res \in RunOutcomes, unlinked \in BOOLEAN :
         /\ app_created' = NewTemp
         /\ app_tmp' = IF unlinked THEN app_tmp \ {NewTemp}
                       ELSE app_tmp \cup {NewTemp}
         /\ app_shown' = Shown(res)
    /\ UNCHANGED << app_uploaded, pipeVars, scenario, cleanVars, splitVars >>

\* the user removes the file: uploaded_file is None, main does nothing more
AppClear ==
    /\ app_uploaded
    /\ app_uploaded' = FALSE
    /\ app_shown' = "none"
    /\ UNCHANGED << app_tmp, app_created, pipeVars, scenario, cleanVars,
                    splitVars >>

NextApp ==
    \/ AppUpload
    \/ AppRerun
    \/ AppProcess
    \/ AppClear

SpecApp == InitApp /\ [][NextApp]_vars

\* --------------------------------------------------------- splitter.py

\* characters typed into a 'Pages for Split' field
SpecAlphabet == {"1", "3", "-", ","}
PageSpecs == UNION { [1..k -> SpecAlphabet] : k \in 0..MaxSpecLen }

DigitChars == << "0", "1", "2", "3", "4", "5", "6", "7", "8", "9" >>
Digits == { DigitChars[i] : i \in DOMAIN DigitChars }
DigitVal(c) == (CHOOSE i \in DOMAIN DigitChars : DigitChars[i] = c) - 1

\* str.split(sep)
RECURSIVE SplitOn(_, _)
SplitOn(s, sep) ==
    IF \A i \in DOMAIN s : s[i] # sep THEN << s >>
    ELSE LET i == CHOOSE k \in DOMAIN s :
                     s[k] = sep /\ \A j \in 1..(k - 1) : s[j] # sep
         IN  << SubSeq(s, 1, i - 1) >> \o SplitOn(SubSeq(s, i + 1, Len(s)), sep)

\* int(s) does not raise ValueError: digits, whitespace allowed around them
IsInt(s) ==
    /\ Strip(s) # <<>>
    /\ \A i \in DOMAIN Strip(s) : Strip(s)[i] \in Digits

RECURSIVE Decimal(_)
Decimal(t) ==
    IF t = <<>> THEN 0
    ELSE 10 * Decimal(SubSeq(t, 1, Len(t) - 1)) + DigitVal(t[Len(t)])

\* int(s)
IntOf(s) == Decimal(Strip(s))

\* split_pdf: one part of pages.split(','); ok is FALSE where ValueError is
\* raised
ParsePart(part) ==
    IF \E i \in DOMAIN part : part[i] = "-"
    THEN LET pieces == SplitOn(Strip(part), "-") IN
         IF Len(pieces) = 2 /\ IsInt(pieces[1]) /\ IsInt(pieces[2])
         THEN [ok |-> TRUE, pages |-> IntOf(pieces[1])..IntOf(pieces[2])]
         ELSE [ok |-> FALSE, pages |-> {}]
    ELSE IF IsInt(part)
         THEN [ok |-> TRUE, pages |-> {IntOf(part)}]
         ELSE [ok |-> FALSE, pages |-> {}]

\* split_pdf: the loop over pages.split(',') and set(page_list)
ParsePages(pages) ==
    LET parts == SplitOn(pages, ",") IN
    [ok |-> \A i \in DOMAIN parts : ParsePart(parts[i]).ok,
     pages |-> UNION { ParsePart(parts[i]).pages : i \in DOMAIN parts }]

\* sorted(list(set(page_list)))
RECURSIVE SortedList(_)
SortedList(S) ==
    IF S = {} THEN <<>>
    ELSE LET m == CHOOSE x \in S : \A y \in S : x <= y
         IN  << m >> \o SortedList(S \ {m})

\* split_pdf: one iteration of the loop over splits: the pages written to
\* the output file, or no file after ValueError or an invalid page number
SplitResult(pages, total) ==
    LET p == ParsePages(pages) IN
    IF ~p.ok THEN [pages |-> pages, wrote |-> FALSE, page_list |-> <<>>]
    ELSE IF \E x \in p.pages : x < 1 \/ x > total
         THEN [pages |-> pages, wrote |-> FALSE, page_list |-> <<>>]
         ELSE [pages |-> pages, wrote |-> TRUE,
               page_list |-> SortedList(p.pages)]

\* SplitResult for every page specification and page count of the model
SplitTable ==
    [total \in 1..MaxTotalPages |->
        [pages \in PageSpecs |-> SplitResult(pages, total)]]

InitSplitter ==
    /\ SplitIdle
    /\ PipelineIdle
    /\ CleanIdle
    /\ AppIdle

\* main: if 'num_splits' not in st.session_state: num_splits = 1
CurrentSplits == IF sp_has_key THEN num_splits ELSE 1

\* 'Remove Split' without its test on num_splits
RemoveResult_noGuard(n) == n - 1

\* main: if st.button("Remove Split") and num_splits > 1: num_splits -= 1
RemoveResult(n) == IF n > 1 THEN n - 1 ELSE n

\* Every rerun starts the script afresh: what split_pdf did in an earlier
\* rerun (sp_i, sp_last) is gone, session_state is kept.

\* the user chooses a PDF: a rerun with no button pressed
SpUpload ==
    /\ ~sp_uploaded /\ sp_pc = "ui"
    /\ sp_uploaded' = TRUE
    /\ total_pages' \in 1..MaxTotalPages
    /\ sp_has_key' = TRUE
    /\ num_splits' = CurrentSplits
    /\ sp_button' = "none"
    /\ sp_i' = 0
    /\ sp_last' = NoSplit
    /\ UNCHANGED << sp_pc, pipeVars, scenario, cleanVars, appVars >>

\* a rerun with 'Add Split' pressed
AddSplit ==
    /\ sp_uploaded /\ sp_pc = "ui"
    /\ CurrentSplits < MaxNumSplits
    /\ sp_has_key' = TRUE
    /\ num_splits' = CurrentSplits + 1
    /\ sp_button' = "add"
    /\ sp_i' = 0
    /\ sp_last' = NoSplit
    /\ UNCHANGED << sp_uploaded, total_pages, sp_pc, pipeVars, scenario,
                    cleanVars, appVars >>

\* a rerun with 'Remove Split' pressed
RemoveSplit ==
    /\ sp_uploaded /\ sp_pc = "ui"
    /\ sp_has_key' = TRUE
    /\ num_splits' = RemoveResult(CurrentSplits)
    /\ sp_button' = "remove"
    /\ sp_i' = 0
    /\ sp_last' = NoSplit
    /\ UNCHANGED << sp_uploaded, total_pages, sp_pc, pipeVars, scenario,
                    cleanVars, appVars >>

\* a rerun with 'Process Splits' pressed: split_pdf is entered
ProcessSplits ==
    /\ sp_uploaded /\ sp_pc = "ui"
    /\ sp_has_key' = TRUE
    /\ num_splits' = CurrentSplits
    /\ sp_button' = "process"
    /\ sp_pc' = "loop"
    /\ sp_i' = 0
    /\ sp_last' = NoSplit
    /\ UNCHANGED << sp_uploaded, total_pages, pipeVars, scenario, cleanVars,
                    appVars >>

\* split_pdf: one iteration of 'for pages, output_filename, split_name in
\* splits'; pages is what the user typed into that split's field
SplitOne ==
    /\ sp_pc = "loop"
    /\ \E pages \in PageSpecs :
         sp_last' = SplitTable[total_pages][pages]
    /\ sp_i' = sp_i + 1
    /\ sp_pc' = IF sp_i + 1 < num_splits THEN "loop" ELSE "ui"
    /\ UNCHANGED << sp_uploaded, sp_has_key, num_splits, sp_button,
                    total_pages, pipeVars, scenario, cleanVars, appVars >>

\* the user removes the PDF: main does nothing, the session keeps num_splits
SpClear ==
    /\ sp_uploaded /\ sp_pc = "ui"
    /\ sp_uploaded' = FALSE
    /\ sp_button' = "none"
    /\ sp_i' = 0
    /\ sp_last' = NoSplit
    /\ UNCHANGED << sp_has_key, num_splits, total_pages, sp_pc, pipeVars,
                    scenario, cleanVars, appVars >>

NextSplitter ==
    \/ SpUpload
    \/ AddSplit
    \/ RemoveSplit
    \/ ProcessSplits
    \/ SplitOne
    \/ SpClear

SpecSplitter == InitSplitter /\ [][NextSplitter]_vars

\* ------------------------------------------------------------ vocabulary

Done == pc = "done"

\* a sub-path produced a usable (non-empty) purified transcript
DirectUsable == pyzerox_output # <<>>
PreUsable == pytess_bound /\ pytess_output # <<>>

CallsOf(stage) == { i \in DOMAIN calls : calls[i].stage = stage }
CallsWith(stage, kinds) == { i \in CallsOf(stage) : calls[i].res \in kinds }
Failures == {"rate", "err"}

\* a purified transcript that is the uncorrected text, after a corrector
\* failure
DirectDegraded == CallsWith("purify_pyzerox", Failures) # {}
PreDegraded == CallsWith("purify_pytess", {"err"}) # {}

\* the run ended with a transcript
HasTranscript == outcome = "returned" /\ result # <<>>

\* the text the corrector itself handed back as the final text is empty
EmptyFinalReply ==
    \/ CallsWith("verify", {"empty"}) # {}
    \/ /\ CallsWith("fuse", {"empty"}) # {}
       /\ CallsWith("verify", Failures) # {}
       /\ entry = "txtGenerator"

DirectFinished == pc \notin {"p_exists", "p_convert", "p_page", "p_purify"}
PreFinished == pc \in {"check", "fuse", "verify", "done"}

RECURSIVE Pow2(_)
Pow2(n) == IF n <= 0 THEN 1 ELSE 2 * Pow2(n - 1)

\* ------------------------------------------------------------------ C1

C2_BothFailedControlled ==
    Done /\ ~DirectUsable /\ ~PreUsable
        => outcome = "returned" /\ result = <<>>

\* ------------------------------------------------------------------ C3

\* C3: when exactly one sub-path yields a usable transcript, no fusion and no
\* verification call is issued and the result is that transcript verbatim
\* (unverified).
C3_SingleSource ==
    Done /\ (DirectUsable # PreUsable)
        => /\ CallsOf("fuse") = {} /\ CallsOf("verify") = {}
           /\ outcome = "returned"
           /\ result = IF DirectUsable THEN pyzerox_output ELSE pytess_output

\* only the Preprocessed sub-path is usable, and it is degraded
C3_Witness ==
    /\ Done /\ ~DirectUsable /\ PreUsable /\ PreDegraded
    /\ result = pytess_output /\ CallsOf("fuse") = {}

\* ------------------------------------------------------------------ C4

\* C4: when the fusion call fails with both purified transcripts present and
\* exactly one of them degraded, the result is the non-degraded transcript.
C4_PreferNonDegraded ==
    ( /\ Done /\ DirectUsable /\ PreUsable
      /\ CallsWith("fuse", Failures) # {}
      /\ DirectDegraded # PreDegraded )
        => /\ outcome = "returned"
           /\ result = IF DirectDegraded THEN pytess_output
                       ELSE pyzerox_output

\* ------------------------------------------------------------------ C5

\* C5: when both purification calls and the fusion call succeed and the
\* verification call fails, the run does not raise and the result is the
\* fused text unchanged, in txtGenerator and in txtapp alike.
C5_VerifyFallsBackToFused ==
    ( /\ Done
      /\ CallsWith("purify_pyzerox", {"ok"}) # {}
      /\ CallsWith("purify_pytess", {"ok"}) # {}
      /\ CallsWith("fuse", {"ok"}) # {}
      /\ CallsWith("verify", Failures) # {} )
        => outcome = "returned" /\ result = combined_text

\* ------------------------------------------------------------------ C6

\* C6: in each purifier a rate-limit failure on attempt k < 5 is followed by
\* another attempt, and the corrector is invoked at most 5 times per purify
\* call.
C6_RetryOnRateLimit ==
    /\ \A st \in {"purify_pyzerox", "purify_pytess"} :
          Cardinality(CallsOf(st)) <= max_retries
    /\ DirectFinished =>
          \A i \in CallsWith("purify_pyzerox", {"rate"}) :
             \/ Cardinality(CallsOf("purify_pyzerox")) = max_retries
             \/ \E j \in CallsOf("purify_pyzerox") : j > i
    /\ PreFinished =>
          \A i \in CallsWith("purify_pytess", {"rate"}) :
             \/ Cardinality(CallsOf("purify_pytess")) = max_retries
             \/ \E j \in CallsOf("purify_pytess") : j > i

\* ------------------------------------------------------------------ C7

\* C7: in pytess.purify_ocr_text the delay slept after the k-th rate-limited
\* attempt is 10 * 2^(k-1); a delay is slept after each of the first four
\* rate-limited attempts and never after the fifth; every purify call starts
\* again from the base delay.
C7_Backoff ==
    /\ \A k \in DOMAIN sleeps : sleeps[k] = retry_delay_base * Pow2(k - 1)
    /\ Len(sleeps) <= max_retries - 1
    /\ Len(sleeps) =
         IF Cardinality(CallsWith("purify_pytess", {"rate"})) < max_retries
         THEN Cardinality(CallsWith("purify_pytess", {"rate"}))
         ELSE max_retries - 1
    /\ pc = "t_purify" =>
         /\ attempt = Len(sleeps)
         /\ retry_delay = retry_delay_base * Pow2(attempt)

\* five rate-limited attempts in one purify call: four delays 10, 20, 40, 80
\* and none after the fifth, which propagates the failure
C7_Witness ==
    /\ Done
    /\ Cardinality(CallsWith("purify_pytess", {"rate"})) = max_retries
    /\ sleeps = << 10, 20, 40, 80 >>

\* ------------------------------------------------------------------ C8

\* C8: when the Preprocessed sub-path fails by raising, get_best_ocr_result
\* does not raise: it returns the Direct transcript if there is one and the
\* empty failure result otherwise.
C8_NeverRaises ==
    Done /\ ~pytess_bound
        => outcome = "returned" /\ result = pyzerox_output

\* ------------------------------------------------------------------ C9

\* C9: after a non-rate-limit corrector failure a purifier makes no further
\* corrector call and returns the whitespace-normalized uncorrected input,
\* in pyzerox_ext and in pytess alike.
C9_DegradedIsNormalized ==
    /\ \A i \in CallsWith("purify_pyzerox", {"err"}) :
          /\ \A j \in CallsOf("purify_pyzerox") : j <= i
          /\ pyzerox_output = clean_ocr_text(JoinLines(text_parts))
    /\ \A i \in CallsWith("purify_pytess", {"err"}) :
          /\ \A j \in CallsOf("purify_pytess") : j <= i
          /\ pytess_bound
          /\ pytess_output = clean_ocr_text(extracted_text)

\* ------------------------------------------------------------------ C10

\* C10: a page whose recognition fails does not abort the backend: once a
\* backend whose rasterization succeeded has finished, every page of the
\* document has contributed a segment to its candidate transcript.
C10_PageFailureTolerated ==
    /\ (DirectFinished /\ zx_images = "ok") => Len(text_parts) = numPages
    /\ (PreFinished /\ tess_images = "ok") => tess_i = numPages

\* ------------------------------------------------------------------ C11

RECURSIVE TakeLine(_)
TakeLine(s) ==
    IF s = <<>> \/ Head(s) = "\n" THEN <<>>
    ELSE <<Head(s)>> \o TakeLine(Tail(s))

\* the per-page segments of a pytess candidate transcript: each page is
\* '\n\n' + text + '\n\n' and the text has no newline
RECURSIVE Segments(_)
Segments(s) ==
    IF Len(s) < 4 THEN <<>>
    ELSE LET body == SubSeq(s, 3, Len(s))
             text == TakeLine(body)
         IN  <<text>> \o Segments(SubSeq(body, Len(text) + 3, Len(body)))

\* C11: for a document of N pages each backend whose rasterization succeeded
\* ends with a candidate transcript of exactly N per-page segments, in page
\* order: the Direct one joins N texts, the Preprocessed one splits into the
\* N texts its recognizer returned.
C11_NSegmentsInOrder ==
    /\ (DirectFinished /\ zx_images = "ok") =>
          \E parts \in [1..numPages -> RawTexts] : text_parts = parts
    /\ (PreFinished /\ tess_images = "ok") =>
          /\ Len(Segments(extracted_text)) = numPages
          /\ Segments(extracted_text) = tess_parts

\* ------------------------------------------------------------------ C14

\* C14: any failure of page image loading (missing path or rasterizer error)
\* ends the run in the explicit failure outcome: no corrector call is made,
\* nothing is raised and no text is returned.
C14_RasterFailureFails ==
    Done /\ (~file_exists \/ zx_images = "fail" \/ tess_images = "fail")
        => calls = <<>> /\ outcome = "returned" /\ result = <<>>

\* ------------------------------------------------------------------ C15

Purifications == CallsOf("purify_pyzerox") \cup CallsOf("purify_pytess")

\* C15: the fusion call is issued only after both sub-paths have finished,
\* each with a non-empty transcript; the verification call is issued only
\* after a fusion call that succeeded; no purification call follows either.
C15_FuseThenVerify ==
    /\ \A i \in CallsOf("fuse") :
          /\ \A j \in Purifications : j < i
          /\ PreFinished /\ DirectUsable /\ PreUsable
    /\ \A i \in CallsOf("verify") :
          /\ \A j \in Purifications : j < i
          /\ \E j \in CallsWith("fuse", {"ok", "empty"}) : j < i

\* a run with a retried purification, then fusion, then verification
C15_Witness ==
    /\ Done
    /\ CallsWith("purify_pytess", {"rate"}) # {}
    /\ CallsOf("fuse") # {} /\ CallsOf("verify") # {}

\* ------------------------------------------------------------------ C17

\* C17: txtapp.get_best_ocr_result and txtGenerator.get_best_ocr_result end
\* alike: the two differ only from the verification call on, and there, for
\* every outcome of that call, both return the same text.
C17_EntriesAgree ==
    pc = "verify" =>
        \A kind \in Replies, t \in CorrectorTexts :
            VerifyOutcome("txtapp", kind, t)
                = VerifyOutcome("txtGenerator", kind, t)

\* ------------------------------------------------------------------ C16

CallBounds ==
    /\ Cardinality(CallsOf("purify_pyzerox")) <= 1
    /\ Cardinality(CallsOf("purify_pytess")) <= max_retries
    /\ Cardinality(CallsOf("fuse")) <= 1
    /\ Cardinality(CallsOf("verify")) <= 1
    /\ Len(calls) <= max_retries + 3

HelloRecognized ==
    /\ scenario = "hello" /\ Done
    /\ text_parts = HelloDirect /\ tess_parts = HelloPre

Normalized(s) ==
    /\ s # <<>> => (s[1] \notin Whitespace /\ s[Len(s)] \notin Whitespace)
    /\ \A i \in 1..(Len(s) - 1) :
          ~(s[i] \in Whitespace /\ s[i + 1] \in Whitespace)

\* C12: clean_ocr_text is idempotent, and its result has no leading or
\* trailing whitespace and no run of more than one whitespace character.
C12_CleanIdempotent ==
    /\ cl_pc \in {"once", "twice"} => Normalized(cl_once)
    /\ cl_pc = "twice" => (cl_twice = cl_once /\ Normalized(cl_twice))

\* a text with a newline and a whitespace run, cleaned twice
C12_Witness ==
    /\ cl_pc = "twice"
    /\ \E i \in DOMAIN cl_in : cl_in[i] = "\n"
    /\ ~Normalized(cl_in)
    /\ cl_once # <<>> /\ cl_once # cl_in

\* ------------------------------------------------------------------ C18

\* C18: after any sequence of reruns of txtapp.main no temporary file
\* created by an earlier rerun is still on disk.
C18_NoTempFileLeft ==
    \A f \in app_tmp : f = app_created

\* ------------------------------------------------------------------ C19

\* the page specification is not of the form '1-3,5,7-9'
Malformed(pages) == ~ParsePages(pages).ok

\* the page specification names a page outside 1..total
NamesPageOutside(pages, total) ==
    \E x \in ParsePages(pages).pages : x < 1 \/ x > total

\* the pages of a written file: inside 1..total, ascending, no duplicates
PagesInOrder(list, total) ==
    /\ \A i \in DOMAIN list : list[i] \in 1..total
    /\ \A i \in 1..(Len(list) - 1) : list[i] < list[i + 1]

\* C19: a split whose page specification is malformed or names a page outside
\* 1..total_pages writes no file and the remaining splits are still
\* processed; every file written holds at least one page, only pages of
\* 1..total_pages, in ascending order and without duplicates.
C19_SplitsWellFormed ==
    /\ (sp_button = "process" /\ sp_i > 0) =>
         /\ (Malformed(sp_last.pages)
               \/ NamesPageOutside(sp_last.pages, total_pages))
                  => ~sp_last.wrote
         /\ sp_last.wrote =>
              /\ sp_last.page_list # <<>>
              /\ PagesInOrder(sp_last.page_list, total_pages)
    /\ (sp_button = "process" /\ sp_pc = "ui") => sp_i = num_splits

\* ------------------------------------------------------------------ C20

\* what a rerun does to num_splits, by the button pressed in it
C20_Step ==
    /\ sp_button' = "add" => num_splits' = CurrentSplits + 1
    /\ sp_button' = "remove" =>
          num_splits' = IF CurrentSplits > 1 THEN CurrentSplits - 1
                        ELSE CurrentSplits
    /\ (sp_button' \notin {"add", "remove"} /\ sp_has_key) =>
          num_splits' = num_splits

\* C20: num_splits is always at least 1; 'Add Split' adds exactly 1, 'Remove
\* Split' subtracts exactly 1 when num_splits is greater than 1 and leaves it
\* unchanged otherwise.
C20_NumSplits ==
    [](sp_has_key => num_splits >= 1) /\ [][C20_Step]_vars

\* 'Remove Split' was pressed and one split is left
C20_Witness ==
    sp_has_key /\ sp_button = "remove" /\ num_splits = 1

====
